---- MODULE Spec2Model ----
(***************************************************************************)
(* The presence-tracking and message-broadcast relay of the StarGuide      *)
(* server (src/unnamed/part_002, lines 59-203): the connectedUsers Map,    *)
(* the four Socket.IO event handlers registered per connection, and the    *)
(* two HTTP routes that read the Map, and the SIGTERM handler.             *)
(*                                                                         *)
(* Node runs one handler to completion per turn, so each handler is one    *)
(* atomic action.  Socket.IO (v3+, as the `cors` option shows) is modelled *)
(* by its documented behaviour: every socket gets a fresh id and is the    *)
(* only member of the room named by that id; io.emit reaches every socket  *)
(* of the namespace; socket.to(room).emit reaches the members of the room  *)
(* except the sending socket; a socket is removed from the namespace and   *)
(* from its rooms before its 'disconnect' listeners run, and no listener   *)
(* of a socket runs after that.  Event payloads are objects or strings as  *)
(* in the interface table (a battleInvite payload has a targetUserId).     *)
(***************************************************************************)
EXTENDS Integers, FiniteSets, Sequences, TLC

\* Bounds of the model.
MaxConns == 3        \* connections accepted over the whole run
MaxJoins == 3        \* userJoined events processed over the whole run

SocketIds == 1..MaxConns
\* An identifier that no connection ever has.
NoSuchId == 0
UserData == {"alice", "bob"}
ChatData == {"hi", "gg"}
InviteData == [targetUserId : SocketIds \cup {NoSuchId}, mode : {"duel"}]

VARIABLES
    connectedUsers,     \* the Map: socket id -> user descriptor
    sockets,            \* ids of the sockets currently in the namespace (open)
    closed,             \* ids whose 'disconnect' handler has run
    joined,             \* ids that have sent userJoined since they connected
    emitted,            \* the emits of the last handler turn, in order
    response,           \* body of the last HTTP response
    lastOp,             \* the handler that ran last, with its input
    nJoins,             \* userJoined events processed
    nNewJoins,          \* userJoined events processed that created an entry
    nJoinedDisconnects, \* disconnects of connections that had joined
    missed,             \* ids an invite was addressed to before any connection had them
    server              \* "listening", "closing" (after server.close) or "exited"

vars == <<connectedUsers, sockets, closed, joined, emitted, response, lastOp,
          nJoins, nNewJoins, nJoinedDisconnects, missed, server>>

hist == <<joined, nJoins, nNewJoins, nJoinedDisconnects>>

NoResponse == [route |-> "none"]

(***************************************************************************)
(* Map operations                                                          *)
(***************************************************************************)
EmptyMap == <<>>

MapSize(m) == Cardinality(DOMAIN m)

\* Mutant of Map.set: inserts a new key but keeps the value of an existing one.
MapSetIfAbsent(m, k, v) ==
    [x \in (DOMAIN m) \cup {k} |-> IF x \in DOMAIN m THEN m[x] ELSE v]

MapSet(m, k, v) == [x \in (DOMAIN m) \cup {k} |-> IF x = k THEN v ELSE m[x]]

\* Mutants of Map.delete: one that removes nothing, one that removes all.
MapDeleteNothing(m, k) == m

MapDeleteAll(m, k) == EmptyMap

MapDelete(m, k) == [x \in (DOMAIN m) \ {k} |-> m[x]]

(***************************************************************************)
(* Emits                                                                   *)
(***************************************************************************)
\* Mutant of io.emit: reaches the registered sockets only.
IoEmitRegistered(nsp, event, data) ==
    [event |-> event, data |-> data, to |-> nsp \cap DOMAIN connectedUsers]

\* io.emit(event, data): every socket of the namespace.
IoEmit(nsp, event, data) == [event |-> event, data |-> data, to |-> nsp]

\* Mutant of socket.to(room).emit: io.emit instead.
SocketToEmitAll(nsp, sender, room, event, data) ==
    [event |-> event, data |-> data, to |-> nsp]

\* Mutant of socket.to(room).emit: routes through the registry.
SocketToEmitRegistered(nsp, sender, room, event, data) ==
    [event |-> event, data |-> data,
     to |-> ({t \in nsp : t = room} \cap DOMAIN connectedUsers) \ {sender}]

\* socket.to(room).emit(event, data): the members of the room, the sender
\* excepted.  The only member of room r is the open socket whose id is r.
SocketToEmit(nsp, sender, room, event, data) ==
    [event |-> event, data |-> data, to |-> {t \in nsp : t = room} \ {sender}]

(***************************************************************************)
(* HTTP response bodies                                                    *)
(***************************************************************************)
HealthBody(m) == [route |-> "/api/health", status |-> "ok", connectedUsers |-> MapSize(m)]

\* Mutant of the /api/users/online body: counts the open sockets.
UsersOnlineBodySockets(m) == [route |-> "/api/users/online", count |-> Cardinality(sockets)]

UsersOnlineBody(m) == [route |-> "/api/users/online", count |-> MapSize(m)]

(***************************************************************************)
(* Initial state: the server listens, nobody is connected.                 *)
(***************************************************************************)
Init ==
    /\ connectedUsers = EmptyMap
    /\ sockets = {}
    /\ closed = {}
    /\ joined = {}
    /\ emitted = <<>>
    /\ response = NoResponse
    /\ lastOp = [op |-> "listen", id |-> NoSuchId, data |-> "none"]
    /\ nJoins = 0
    /\ nNewJoins = 0
    /\ nJoinedDisconnects = 0
    /\ missed = {}
    /\ server = "listening"

(***************************************************************************)
(* Handlers                                                                *)
(***************************************************************************)
\* The id of the next socket.  Socket ids are fresh opaque strings; the
\* model names them 1, 2, ... in the order the connections are accepted.
NextSocketId == Cardinality(sockets \cup closed) + 1

\* Mutant of the connection handler: registers the socket at once.
ConnectRegisters(s) ==
    /\ server = "listening"
    /\ s = NextSocketId
    /\ sockets' = sockets \cup {s}
    /\ connectedUsers' = MapSet(connectedUsers, s, "alice")
    /\ emitted' = <<>>
    /\ response' = NoResponse
    /\ lastOp' = [op |-> "connection", id |-> s, data |-> "none"]
    /\ UNCHANGED <<closed, hist, missed, server>>

\* Mutant of the connection handler: replays an invite that was addressed
\* to the socket's id before it connected.
ConnectReplaysMissed(s) ==
    /\ server = "listening"
    /\ s = NextSocketId
    /\ sockets' = sockets \cup {s}
    /\ emitted' = IF s \in missed
                  THEN <<[event |-> "battleInvite",
                          data |-> [targetUserId |-> s, mode |-> "duel"], to |-> {s}]>>
                  ELSE <<>>
    /\ response' = NoResponse
    /\ lastOp' = [op |-> "connection", id |-> s, data |-> "none"]
    /\ UNCHANGED <<connectedUsers, closed, hist, missed, server>>

\* io.on('connection'): a socket with a fresh id; the handler logs and
\* registers the listeners, nothing else.
Connect(s) ==
    /\ server = "listening"
    /\ s = NextSocketId
    /\ sockets' = sockets \cup {s}
    /\ emitted' = <<>>
    /\ response' = NoResponse
    /\ lastOp' = [op |-> "connection", id |-> s, data |-> "none"]
    /\ UNCHANGED <<connectedUsers, closed, hist, missed, server>>

\* socket.on('userJoined')
UserJoined(s, userData) ==
    /\ server # "exited"
    /\ s \in sockets
    /\ nJoins < MaxJoins
    /\ connectedUsers' = MapSet(connectedUsers, s, userData)
    /\ emitted' = <<IoEmit(sockets, "onlineUsers", MapSize(connectedUsers'))>>
    /\ response' = NoResponse
    /\ lastOp' = [op |-> "userJoined", id |-> s, data |-> userData]
    /\ joined' = joined \cup {s}
    /\ nJoins' = nJoins + 1
    /\ nNewJoins' = IF s \in DOMAIN connectedUsers THEN nNewJoins ELSE nNewJoins + 1
    /\ UNCHANGED <<sockets, closed, nJoinedDisconnects, missed, server>>

\* Mutant of the disconnect handler: broadcasts only if an entry was removed.
DisconnectQuietIfAbsent(s) ==
    /\ server # "exited"
    /\ s \in sockets
    /\ sockets' = sockets \ {s}
    /\ closed' = closed \cup {s}
    /\ connectedUsers' = MapDelete(connectedUsers, s)
    /\ emitted' = IF s \in DOMAIN connectedUsers
                  THEN <<IoEmit(sockets \ {s}, "onlineUsers", MapSize(connectedUsers'))>>
                  ELSE <<>>
    /\ response' = NoResponse
    /\ lastOp' = [op |-> "disconnect", id |-> s, data |-> "none"]
    /\ nJoinedDisconnects' = IF s \in joined THEN nJoinedDisconnects + 1
                             ELSE nJoinedDisconnects
    /\ UNCHANGED <<joined, nJoins, nNewJoins, missed, server>>

\* Mutant of the disconnect handler: the broadcast still reaches the socket
\* that is leaving.
DisconnectEmitsToLeaving(s) ==
    /\ server # "exited"
    /\ s \in sockets
    /\ sockets' = sockets \ {s}
    /\ closed' = closed \cup {s}
    /\ connectedUsers' = MapDelete(connectedUsers, s)
    /\ emitted' = <<IoEmit(sockets, "onlineUsers", MapSize(connectedUsers'))>>
    /\ response' = NoResponse
    /\ lastOp' = [op |-> "disconnect", id |-> s, data |-> "none"]
    /\ nJoinedDisconnects' = IF s \in joined THEN nJoinedDisconnects + 1
                             ELSE nJoinedDisconnects
    /\ UNCHANGED <<joined, nJoins, nNewJoins, missed, server>>

\* socket.on('disconnect'): the socket has already left the namespace.
Disconnect(s) ==
    /\ server # "exited"
    /\ s \in sockets
    /\ sockets' = sockets \ {s}
    /\ closed' = closed \cup {s}
    /\ connectedUsers' = MapDelete(connectedUsers, s)
    /\ emitted' = <<IoEmit(sockets \ {s}, "onlineUsers", MapSize(connectedUsers'))>>
    /\ response' = NoResponse
    /\ lastOp' = [op |-> "disconnect", id |-> s, data |-> "none"]
    /\ nJoinedDisconnects' = IF s \in joined THEN nJoinedDisconnects + 1
                             ELSE nJoinedDisconnects
    /\ UNCHANGED <<joined, nJoins, nNewJoins, missed, server>>

\* Mutant of the chatMessage handler: registers the sender and announces
\* the new count before relaying.
ChatMessageRegisters(s, data) ==
    /\ server # "exited"
    /\ s \in sockets
    /\ connectedUsers' = MapSet(connectedUsers, s, data)
    /\ emitted' = <<IoEmit(sockets, "onlineUsers", MapSize(connectedUsers')),
                    IoEmit(sockets, "chatMessage", data)>>
    /\ response' = NoResponse
    /\ lastOp' = [op |-> "chatMessage", id |-> s, data |-> data]
    /\ UNCHANGED <<sockets, closed, hist, missed, server>>

\* socket.on('chatMessage')
ChatMessage(s, data) ==
    /\ server # "exited"
    /\ s \in sockets
    /\ emitted' = <<IoEmit(sockets, "chatMessage", data)>>
    /\ response' = NoResponse
    /\ lastOp' = [op |-> "chatMessage", id |-> s, data |-> data]
    /\ UNCHANGED <<connectedUsers, sockets, closed, hist, missed, server>>

\* socket.on('battleInvite')
BattleInvite(s, data) ==
    /\ server # "exited"
    /\ s \in sockets
    /\ emitted' = <<SocketToEmit(sockets, s, data.targetUserId, "battleInvite", data)>>
    /\ response' = NoResponse
    /\ lastOp' = [op |-> "battleInvite", id |-> s, data |-> data]
    /\ missed' = missed \cup ({data.targetUserId} \cap (SocketIds \ (sockets \cup closed)))
    /\ UNCHANGED <<connectedUsers, sockets, closed, hist, server>>

\* app.get('/api/health').  A request arrives on a connection of its own,
\* which a server that has stopped listening does not accept.
GetHealth ==
    /\ server = "listening"
    /\ response' = HealthBody(connectedUsers)
    /\ emitted' = <<>>
    /\ lastOp' = [op |-> "GET /api/health", id |-> NoSuchId, data |-> "none"]
    /\ UNCHANGED <<connectedUsers, sockets, closed, hist, missed, server>>

\* app.get('/api/users/online')
GetUsersOnline ==
    /\ server = "listening"
    /\ response' = UsersOnlineBody(connectedUsers)
    /\ emitted' = <<>>
    /\ lastOp' = [op |-> "GET /api/users/online", id |-> NoSuchId, data |-> "none"]
    /\ UNCHANGED <<connectedUsers, sockets, closed, hist, missed, server>>

\* Mutant of the SIGTERM handler: exits at once, open connections or not.
SigtermExitsAtOnce ==
    /\ server # "exited"
    /\ server' = "exited"
    /\ emitted' = <<>>
    /\ response' = NoResponse
    /\ lastOp' = [op |-> "SIGTERM", id |-> NoSuchId, data |-> "none"]
    /\ UNCHANGED <<connectedUsers, sockets, closed, hist, missed>>

\* process.on('SIGTERM'): server.close(callback) stops the listener at once;
\* the callback runs in a later turn, once no connection is left.
Sigterm ==
    /\ server # "exited"
    /\ server' = "closing"
    /\ emitted' = <<>>
    /\ response' = NoResponse
    /\ lastOp' = [op |-> "SIGTERM", id |-> NoSuchId, data |-> "none"]
    /\ UNCHANGED <<connectedUsers, sockets, closed, hist, missed>>

\* The callback of server.close: every connection has ended; process.exit(0).
ServerClosed ==
    /\ server = "closing"
    /\ sockets = {}
    /\ server' = "exited"
    /\ emitted' = <<>>
    /\ response' = NoResponse
    /\ lastOp' = [op |-> "exit", id |-> NoSuchId, data |-> "none"]
    /\ UNCHANGED <<connectedUsers, sockets, closed, hist, missed>>

Next ==
    \/ \E s \in SocketIds : Connect(s)
    \/ \E s \in SocketIds, u \in UserData : UserJoined(s, u)
    \/ \E s \in SocketIds : Disconnect(s)
    \/ \E s \in SocketIds, d \in ChatData : ChatMessage(s, d)
    \/ \E s \in SocketIds, d \in InviteData : BattleInvite(s, d)
    \/ GetHealth
    \/ GetUsersOnline
    \/ Sigterm
    \/ ServerClosed

Spec == Init /\ [][Next]_vars

\* The event loop runs a callback that is due: the close callback is not
\* postponed for ever.  Clients are under no obligation to do anything.
LiveSpec == Spec /\ WF_vars(ServerClosed)

(***************************************************************************)
(* Properties                                                              *)
(***************************************************************************)
\* What the last handler turn emitted, when it emitted exactly one event.
LastEmit == emitted[1]

\* C1 (as stated): after every sequence of events the registry size equals
\* the number of userJoined events processed minus the number of
\* disconnects of connections that had joined.
C1_SizeIsJoinsMinusDisconnects ==
    MapSize(connectedUsers) + nJoinedDisconnects = nJoins

\* C1 (amended): the registry size equals the number of userJoined events
\* that created an entry (sent by a connection that had no entry) minus the
\* number of disconnects of connections that had joined, and is never
\* negative.
C1_SizeIsNewJoinsMinusDisconnects ==
    /\ nNewJoins >= nJoinedDisconnects
    /\ MapSize(connectedUsers) = nNewJoins - nJoinedDisconnects
    /\ MapSize(connectedUsers) >= 0

C1_Witness ==
    /\ nJoins > nNewJoins
    /\ nJoinedDisconnects > 0
    /\ MapSize(connectedUsers) > 0

\* C2 (as stated): in every reachable state the number of registry entries
\* equals the number of currently open connections.
C2_SizeEqualsOpenConnections ==
    MapSize(connectedUsers) = Cardinality(sockets)

\* C2 (amended): in every reachable state the number of registry entries
\* equals the number of currently open connections that have sent
\* userJoined, and so never exceeds the number of open connections.
C2_SizeEqualsOpenJoinedConnections ==
    /\ MapSize(connectedUsers) = Cardinality(sockets \cap joined)
    /\ MapSize(connectedUsers) <= Cardinality(sockets)

C2_Witness ==
    /\ MapSize(connectedUsers) > 0
    /\ Cardinality(sockets) > MapSize(connectedUsers)

\* C3: every key of the registry is the id of an open connection, and no
\* connection whose disconnect handler has run has an entry (in any later
\* state, so none is re-created).
C3_NoOrphanEntries ==
    /\ DOMAIN connectedUsers \subseteq sockets
    /\ \A s \in closed : s \notin DOMAIN connectedUsers

C3_Witness ==
    /\ \E s \in closed : s \in joined
    /\ lastOp.op = "userJoined"
    /\ MapSize(connectedUsers) > 0

\* C4: a battleInvite whose targetUserId is X is delivered to no connection
\* other than X, whoever sends it and whatever connections are open.
C4_InviteOnlyToTarget ==
    lastOp.op = "battleInvite" =>
        /\ Len(emitted) = 1
        /\ LastEmit.event = "battleInvite"
        /\ LastEmit.to \subseteq {lastOp.data.targetUserId}

C4_Witness ==
    /\ lastOp.op = "battleInvite"
    /\ Cardinality(sockets) = 3
    /\ LastEmit.to = {lastOp.data.targetUserId}

\* C5 (as stated): a battleInvite whose targetUserId is the id of an open
\* connection is received by that connection with the same payload, for
\* every choice of sender and target.
C5_InviteReachesOpenTarget ==
    (lastOp.op = "battleInvite" /\ lastOp.data.targetUserId \in sockets) =>
        /\ Len(emitted) = 1
        /\ LastEmit.event = "battleInvite"
        /\ lastOp.data.targetUserId \in LastEmit.to
        /\ LastEmit.data = lastOp.data

\* C5 (amended): a battleInvite whose targetUserId is the id of an open
\* connection other than the sender is received by that connection with
\* the same payload; an invite addressed to the sender itself is delivered
\* to nobody.
C5_InviteReachesOtherOpenTarget ==
    (lastOp.op = "battleInvite" /\ lastOp.data.targetUserId \in sockets) =>
        /\ Len(emitted) = 1
        /\ LastEmit.event = "battleInvite"
        /\ LastEmit.data = lastOp.data
        /\ IF lastOp.data.targetUserId = lastOp.id
           THEN LastEmit.to = {}
           ELSE lastOp.data.targetUserId \in LastEmit.to

C5_Witness ==
    /\ lastOp.op = "battleInvite"
    /\ lastOp.data.targetUserId \in sockets \ DOMAIN connectedUsers
    /\ lastOp.data.targetUserId # lastOp.id
    /\ lastOp.data.targetUserId \in LastEmit.to

\* C6: a chatMessage sent by connection A is delivered, payload unchanged,
\* to every connection registered at that instant and to A itself, whether
\* or not A is registered.
C6_ChatReachesRegisteredAndSender ==
    lastOp.op = "chatMessage" =>
        /\ Len(emitted) = 1
        /\ LastEmit.event = "chatMessage"
        /\ LastEmit.data = lastOp.data
        /\ DOMAIN connectedUsers \subseteq LastEmit.to
        /\ lastOp.id \in LastEmit.to

C6_Witness ==
    /\ lastOp.op = "chatMessage"
    /\ lastOp.id \notin DOMAIN connectedUsers
    /\ MapSize(connectedUsers) >= 2
    /\ lastOp.id \in LastEmit.to

\* C7: every userJoined and every disconnect (also of a connection that
\* never joined) is followed in the same turn by exactly one onlineUsers
\* broadcast to all connections open at that instant, carrying the
\* registry size after the mutation.
C7_PresenceBroadcastAfterMutation ==
    lastOp.op \in {"userJoined", "disconnect"} =>
        /\ Len(emitted) = 1
        /\ LastEmit.event = "onlineUsers"
        /\ LastEmit.to = sockets
        /\ LastEmit.data = MapSize(connectedUsers)

C7_Witness ==
    /\ lastOp.op = "disconnect"
    /\ lastOp.id \notin joined
    /\ Len(emitted) = 1
    /\ Cardinality(LastEmit.to) = 2
    /\ LastEmit.data = 1

\* C8: disconnecting a connection that never sent userJoined leaves the
\* registry unchanged (same keys, same descriptors, same size).
C8_DisconnectOfUnjoinedKeepsRegistry ==
    [][\A s \in SocketIds :
         (s \in sockets /\ s \notin sockets' /\ s \notin joined) =>
             connectedUsers' = connectedUsers]_vars

C8_Witness ==
    /\ lastOp.op = "disconnect"
    /\ lastOp.id \notin joined
    /\ MapSize(connectedUsers) = 2

\* C9: a connect alone creates no entry: a connection has an entry if and
\* only if it is open and has sent userJoined since it connected.
C9_EntryIffOpenAndJoined ==
    \A s \in SocketIds :
        s \in DOMAIN connectedUsers <=> (s \in sockets /\ s \in joined)

C9_Witness ==
    /\ lastOp.op = "connection"
    /\ lastOp.id \in sockets \ DOMAIN connectedUsers
    /\ MapSize(connectedUsers) > 0

\* C10: GET /api/users/online returns the current registry size as count,
\* GET /api/health reports the same value as connectedUsers, and neither
\* request changes the registry.
C10_HttpReportsRegistrySize ==
    [][/\ lastOp'.op = "GET /api/users/online" =>
            /\ response'.route = "/api/users/online"
            /\ response'.count = MapSize(connectedUsers)
            /\ connectedUsers' = connectedUsers
       /\ lastOp'.op = "GET /api/health" =>
            /\ response'.route = "/api/health"
            /\ response'.connectedUsers = MapSize(connectedUsers)
            /\ connectedUsers' = connectedUsers]_vars

C10_Witness ==
    /\ lastOp.op = "GET /api/users/online"
    /\ response.count = 2
    /\ Cardinality(sockets) = 3

\* C11 (as stated): once SIGTERM has been received the process eventually
\* exits, without waiting for the still-open connections to disconnect.
C11_ExitsWithoutWaiting == (server = "closing") ~> (server = "exited")

\* C11 (amended): once SIGTERM has been received no new connection is
\* accepted, and the process exits only when no connection is open: it
\* waits for the still-open connections to disconnect, and eventually
\* exits once none is left.
C11_ExitsOnceConnectionsAreGone ==
    /\ [][server # "listening" => (sockets' \subseteq sockets /\ server' # "listening")]_vars
    /\ [](server = "exited" => sockets = {})
    /\ (server = "closing" /\ sockets = {}) ~> (server = "exited")

C11_Witness ==
    /\ server = "closing"
    /\ lastOp.op = "disconnect"
    /\ sockets # {}

\* C12: a battleInvite whose targetUserId identifies no open connection is
\* a silent no-op: no connection (the sender included) receives anything,
\* the registry and the set of connections are unchanged, and the invite
\* is not queued: a connection that later opens with that id receives
\* nothing when it opens.
C12_InviteToAbsentTargetIsNoOp ==
    [][/\ (lastOp'.op = "battleInvite" /\ lastOp'.data.targetUserId \notin sockets) =>
            /\ Len(emitted') = 1
            /\ emitted'[1].to = {}
            /\ connectedUsers' = connectedUsers
            /\ sockets' = sockets
       /\ \A s \in missed :
            (s \notin sockets /\ s \in sockets') =>
                \A i \in DOMAIN emitted' : s \notin emitted'[i].to]_vars

C12_Witness ==
    /\ lastOp.op = "connection"
    /\ lastOp.id \in missed
    /\ emitted = <<>>
    /\ MapSize(connectedUsers) > 0

\* C13: every event the server emits is received only by connections that
\* are open at the instant of the emit: open before the handler's turn and
\* still open after it, so never one whose disconnect handler has run and
\* never one that connects in that turn or later.
C13_EmitsReachOpenConnectionsOnly ==
    [][\A i \in DOMAIN emitted' :
         /\ emitted'[i].to \subseteq (sockets \cap sockets')
         /\ emitted'[i].to \cap closed' = {}]_vars

C13_Witness ==
    /\ lastOp.op = "chatMessage"
    /\ closed # {}
    /\ Cardinality(sockets) = 2
    /\ LastEmit.to = sockets

\* C14: a userJoined from a connection that already has an entry overwrites
\* that entry's descriptor with the new payload and leaves the size and all
\* other entries unchanged; the same userJoined sent a second time leaves
\* the registry as the first left it.
C14_RejoinOverwritesOwnEntryOnly ==
    [][/\ \A s \in DOMAIN connectedUsers :
            (lastOp'.op = "userJoined" /\ lastOp'.id = s /\ nJoins' = nJoins + 1) =>
                /\ DOMAIN connectedUsers' = DOMAIN connectedUsers
                /\ connectedUsers'[s] = lastOp'.data
                /\ \A o \in DOMAIN connectedUsers \ {s} :
                       connectedUsers'[o] = connectedUsers[o]
       /\ (/\ lastOp.op = "userJoined" /\ lastOp'.op = "userJoined"
           /\ lastOp'.id = lastOp.id /\ lastOp'.data = lastOp.data
           /\ nJoins' = nJoins + 1) =>
                connectedUsers' = connectedUsers]_vars

C14_Witness ==
    /\ lastOp.op = "userJoined"
    /\ nJoins = 2
    /\ nNewJoins = 1
    /\ Cardinality(sockets) >= 2

\* C15: the chatMessage and battleInvite handlers never modify the registry
\* and never cause an onlineUsers broadcast; the registry changes only in
\* the userJoined and disconnect handlers.
C15_OnlyJoinAndDisconnectChangeRegistry ==
    [][/\ lastOp'.op \in {"chatMessage", "battleInvite"} =>
            /\ connectedUsers' = connectedUsers
            /\ \A i \in DOMAIN emitted' : emitted'[i].event # "onlineUsers"
       /\ connectedUsers' # connectedUsers =>
            lastOp'.op \in {"userJoined", "disconnect"}]_vars

C15_Witness ==
    /\ lastOp.op = "battleInvite"
    /\ MapSize(connectedUsers) = 2
    /\ LastEmit.event = "battleInvite"
    /\ LastEmit.to # {}

====
